---- MODULE Spec2Model ----
(***************************************************************************)
(* Model of the job preparation and submission tools:                      *)
(*   src/tools/job_prepper.py   (allocator, expander, script, metadata)    *)
(*   src/tools/job_launcher.py  (submit_job, update_metadata)              *)
(* File names and command output are sequences of one-character strings,   *)
(* so that str.startswith, str.replace, int(), str.split and the f-string  *)
(* formatting are computed character by character.                         *)
(***************************************************************************)
EXTENDS Integers, Sequences, FiniteSets, TLC

VARIABLES
    \* ---- the output directory (create_directory_structure) ----
    parentExists,   \* the output directory itself exists
    fsDirs,         \* names of its immediate children that are directories
    fsFiles,        \* names of its immediate children that are regular files
    pc,             \* per invocation: "idle" | "listed"
    highest_num,    \* per invocation: local highest_num after the scan
    seen,           \* per invocation: the directories present at its scan
    startedAt,      \* per invocation: clock value of its scan
    calls,          \* log of finished create_directory_structure calls
    now,            \* logical clock: number of allocator steps taken
    \* ---- the parameter expander (add_array_parameters) ----
    range_array_params,  \* content of range_array_params.json
    expanded,            \* outcome of add_array_parameters on it
    \* ---- the parameter directory and the run directories ----
    array_json,     \* array_params.json: [exists, list]
    simul_json,     \* simul_params.json: the shared parameters
    simul_out,      \* simul_params["output_directory"]
    scripts,        \* run directory name -> its job_script.sh
    metas,          \* run directory name -> its metadata.json document
    launched,       \* what the last array task passed to the target program
    \* ---- one preparation invocation (job_prepper.py __main__) ----
    prep_pc,        \* position in __main__
    prep_result,    \* how the last invocation ended
    mem_range,      \* range_array_params as loaded by the invocation
    mem_simul_out,  \* simul_params["output_directory"] as loaded
    sub_dir_path,   \* the run directory the invocation was allocated
    atStart,        \* run directories, scripts and metadata at its start
    preps,          \* number of invocations started
    allOk,          \* every invocation so far ended successfully
    \* ---- one submission (job_launcher.py __main__) ----
    meta_file,      \* metadata.json of the submitted run: [kind, doc]
    l_pc,           \* position in submit_job / update_metadata
    sbatch,         \* the completed sbatch process: [kind, rc, stdout]
    job_id,         \* local job_id
    metadata,       \* local metadata of update_metadata
    fileAtStart,    \* metadata.json when the submission started
    prepared,       \* metadata.json as the preparation left it
    updateInvoked,  \* update_metadata was entered by this submission
    submits         \* number of submissions started

allocVars == <<parentExists, fsDirs, fsFiles, pc, highest_num, seen, startedAt, calls, now>>

expandVars == <<range_array_params, expanded>>

filesVars == <<array_json, simul_json, simul_out, scripts, metas, launched>>

prepVars == <<prep_pc, prep_result, mem_range, mem_simul_out, sub_dir_path, atStart, preps, allOk>>

launchVars == <<meta_file, l_pc, sbatch, job_id, metadata, fileAtStart, prepared,
                updateInvoked, submits>>

vars == <<allocVars, expandVars, filesVars, prepVars, launchVars>>

------------------------------------------------------------------------------
(* Bounds of the model *)

MaxCalls == 3

MaxParams == 2

MaxListLen == 2

MaxTaskId == 4

MaxPreps == 2

MaxSubmits == 2

------------------------------------------------------------------------------
(* Characters and names *)

DigitSeq == <<"0", "1", "2", "3", "4", "5", "6", "7", "8", "9">>

DigitChars == {DigitSeq[i] : i \in 1..10}

DigitVal(c) == (CHOOSE i \in 1..10 : DigitSeq[i] = c) - 1

\* the default of the prefix parameter; the only call site passes no prefix
Prefix == <<"r", "u", "n", "_">>

\* f"{n}" for a non-negative integer: decimal, no leading zero
RECURSIVE FormatInt(_)
FormatInt(n) ==
    IF n < 10 THEN <<DigitSeq[n + 1]>>
    ELSE FormatInt(n \div 10) \o <<DigitSeq[(n % 10) + 1]>>

\* d.startswith(prefix)
StartsWith(d) ==
    /\ Len(d) >= Len(Prefix)
    /\ SubSeq(d, 1, Len(Prefix)) = Prefix

\* dir_name.replace(prefix, ""): every non-overlapping occurrence of the
\* prefix, scanning from the left, is removed
RECURSIVE ReplacePrefix(_)
ReplacePrefix(s) ==
    IF Len(s) < Len(Prefix) THEN s
    ELSE IF SubSeq(s, 1, Len(Prefix)) = Prefix
         THEN ReplacePrefix(SubSeq(s, Len(Prefix) + 1, Len(s)))
         ELSE <<s[1]>> \o ReplacePrefix(Tail(s))

\* int(s) succeeds (no ValueError): over the alphabet of the model (letters,
\* digits, "_") that is a non-empty run of digits in which single underscores
\* may separate digits
IntParses(s) ==
    /\ Len(s) > 0
    /\ s[1] \in DigitChars
    /\ s[Len(s)] \in DigitChars
    /\ \A i \in 1..Len(s) : s[i] \in DigitChars \cup {"_"}
    /\ \A i \in 1..(Len(s) - 1) : ~(s[i] = "_" /\ s[i + 1] = "_")

\* the value of int(s) when it parses: base 10, underscores ignored
RECURSIVE IntValue(_)
IntValue(s) ==
    IF Len(s) = 0 THEN 0
    ELSE IF s[Len(s)] = "_" THEN IntValue(SubSeq(s, 1, Len(s) - 1))
    ELSE 10 * IntValue(SubSeq(s, 1, Len(s) - 1)) + DigitVal(s[Len(s)])

Max2(a, b) == IF a >= b THEN a ELSE b

Min2(a, b) == IF a <= b THEN a ELSE b

\* the list comprehension: directories of the listing that start with the prefix
ExistingDirs(dirs) == {d \in dirs : StartsWith(d)}

\* faulty variant of HighestNum: min() in place of max()
RECURSIVE HighestNumMin(_)
HighestNumMin(names) ==
    IF names = {} THEN 0
    ELSE LET d == CHOOSE x \in names : TRUE
             rest == HighestNumMin(names \ {d})
         IN  IF IntParses(ReplacePrefix(d))
             THEN Min2(rest, IntValue(ReplacePrefix(d)))
             ELSE rest

\* the scan loop: highest_num = 0; for each name, try int(name.replace(...)),
\* keep the maximum, skip the name on ValueError
RECURSIVE HighestNum(_)
HighestNum(names) ==
    IF names = {} THEN 0
    ELSE LET d == CHOOSE x \in names : TRUE
             rest == HighestNum(names \ {d})
         IN  IF IntParses(ReplacePrefix(d))
             THEN Max2(rest, IntValue(ReplacePrefix(d)))
             ELSE rest

\* faulty variant of NextDirName: the increment is forgotten
NextDirNameNoIncrement(h) == Prefix \o FormatInt(h)

\* next_dir_name = f"{prefix}{highest_num + 1}"
NextDirName(h) == Prefix \o FormatInt(h + 1)

------------------------------------------------------------------------------
(* JSON values.  A top-level dict is a function from keys to values; a      *)
(* value is a number, null, or a nested object.                             *)

Num(k) == [t |-> "num", n |-> k]

Obj(f) == [t |-> "obj", o |-> f]

JNull == [t |-> "null"]

------------------------------------------------------------------------------
(* add_array_parameters *)

\* one entry of the Range Specification, in declaration order: an explicit
\* list, a {start, end, step} dict, a dict without one of these keys, or
\* anything else (a string, a number)
ListEntry(name, vals) ==
    [name |-> name, kind |-> "list", vals |-> vals, start |-> 0, end |-> 0, step |-> 0]

RangeEntry(name, a, b, s) ==
    [name |-> name, kind |-> "range", vals |-> <<>>, start |-> a, end |-> b, step |-> s]

PartialDictEntry(name) ==
    [name |-> name, kind |-> "partial_dict", vals |-> <<>>, start |-> 0, end |-> 0, step |-> 0]

OtherEntry(name) ==
    [name |-> name, kind |-> "other", vals |-> <<>>, start |-> 0, end |-> 0, step |-> 0]

\* np.arange(start, end, step).tolist() on integers, step # 0
Arange(a, b, s) ==
    LET n == IF s > 0
             THEN (IF b > a THEN (b - a + s - 1) \div s ELSE 0)
             ELSE (IF b < a THEN (a - b + (0 - s) - 1) \div (0 - s) ELSE 0)
    IN  [i \in 1..n |-> Num(a + (i - 1) * s)]

\* faulty variant of ExpandError: no entry makes the loop raise
ExpandErrorNever(spec) == "none"

\* the exception the loop over param_names raises, at the first entry that
\* is not usable: ValueError("Invalid range type") from the else branch,
\* KeyError from the subscripts of a dict without start, end or step
ExpandError(spec) ==
    LET bad == {i \in 1..Len(spec) : spec[i].kind \notin {"list", "range"}}
    IN  IF bad = {} THEN "none"
        ELSE LET first == CHOOSE i \in bad : \A j \in bad : i <= j
             IN  IF spec[first].kind = "partial_dict" THEN "KeyError" ELSE "ValueError"

\* param_ranges: one value sequence per parameter, in declaration order
ParamRanges(spec) ==
    [i \in 1..Len(spec) |->
        IF spec[i].kind = "list" THEN spec[i].vals
        ELSE Arange(spec[i].start, spec[i].end, spec[i].step)]

\* faulty variant of ProductOf: the first pool varies fastest
RECURSIVE ProductFirstFastest(_)
ProductFirstFastest(pools) ==
    IF Len(pools) = 0 THEN << <<>> >>
    ELSE LET prev == ProductFirstFastest(SubSeq(pools, 1, Len(pools) - 1))
             pool == pools[Len(pools)]
         IN  [k \in 1..(Len(prev) * Len(pool)) |->
                 Append(prev[((k - 1) % Len(prev)) + 1],
                        pool[((k - 1) \div Len(prev)) + 1])]

\* itertools.product(*pools): result = [[]]; for each pool in turn
\* result = [x + [y] for x in result for y in pool]
RECURSIVE ProductOf(_)
ProductOf(pools) ==
    IF Len(pools) = 0 THEN << <<>> >>
    ELSE LET prev == ProductOf(SubSeq(pools, 1, Len(pools) - 1))
             pool == pools[Len(pools)]
         IN  [k \in 1..(Len(prev) * Len(pool)) |->
                 Append(prev[((k - 1) \div Len(pool)) + 1],
                        pool[((k - 1) % Len(pool)) + 1])]

ParamNames(spec) == {spec[i].name : i \in 1..Len(spec)}

\* dict(zip(param_names, combination))
ZipDict(spec, combination) ==
    [nm \in ParamNames(spec) |->
        combination[CHOOSE i \in 1..Len(spec) : spec[i].name = nm]]

\* the list of combinations returned (when no ValueError is raised)
add_array_parameters(spec) ==
    LET combinations == ProductOf(ParamRanges(spec))
    IN  [k \in 1..Len(combinations) |-> ZipDict(spec, combinations[k])]

\* the inputs: dicts of at most MaxParams entries with distinct keys
ParamNameChoices == {"a", "b", "c"}

ListValues == {Num(1), Num(2)}

ListChoices == UNION {[1..n -> ListValues] : n \in 0..MaxListLen}

RangeChoices == {<<0, 2, 1>>, <<0, 3, 2>>, <<1, 1, 1>>, <<2, 0, 0 - 1>>}

EntryChoices ==
    UNION {    {ListEntry(nm, v) : v \in ListChoices}
          \cup {RangeEntry(nm, r[1], r[2], r[3]) : r \in RangeChoices}
          \cup {PartialDictEntry(nm), OtherEntry(nm)} : nm \in ParamNameChoices}

DistinctNames(spec) ==
    \A i, j \in 1..Len(spec) : i # j => spec[i].name # spec[j].name

RangeSpecs ==
    UNION {{spec \in [1..n -> EntryChoices] : DistinctNames(spec)} : n \in 0..MaxParams}

------------------------------------------------------------------------------
(* dump_json and the generated job_script.sh *)

\* dict.update / jq object addition: keys of both, the right operand wins
DictUpdate(d, u) ==
    [k \in (DOMAIN d) \cup (DOMAIN u) |-> IF k \in DOMAIN u THEN u[k] ELSE d[k]]

\* json.dump of the list of combinations: a JSON array of objects
DumpCombinations(list) == [k \in 1..Len(list) |-> Obj(list[k])]

ArrayPath == "params/array_params.json"

SimulPath == "params/simul_params.json"

ProgramPath == "main.py"

\* the text written by generate_slurm_script: the #SBATCH array directive and
\* the three paths the f-string embeds
generate_slurm_script(subdir_path, python_script_path, array_directive, simul_path, array_path) ==
    [dir |-> subdir_path, array |-> array_directive, array_path |-> array_path,
     simul_path |-> simul_path, program |-> python_script_path, mode |-> "rw"]

\* os.chmod(secondary_job_path, 0o700)
Chmod700(script) == [script EXCEPT !.mode = "rwx"]

\* the file a path of the script names, at the time the task runs
FileAt(path, arrayFile, simulFile) ==
    IF path = ArrayPath THEN arrayFile.list
    ELSE IF path = SimulPath THEN simulFile
    ELSE JNull

\* jq '.[$pos]' on an array: a negative index counts from the end, an index
\* outside the array gives null
JqIndex(list, pos) ==
    LET at == IF pos < 0 THEN Len(list) + pos ELSE pos
    IN  IF at >= 0 /\ at < Len(list) THEN list[at + 1] ELSE JNull

\* jq '$simul_dict + $array_dict': null is the identity, two objects are
\* merged key by key at the top level, the right operand winning
JqAdd(x, y) ==
    IF y.t = "null" THEN x
    ELSE IF x.t = "null" THEN y
    ELSE Obj(DictUpdate(x.o, y.o))

\* the script body for SLURM_ARRAY_TASK_ID = position: the argument passed to
\* the target program
ScriptArgument(script, position, arrayFile, simulFile) ==
    LET array_dict == JqIndex(FileAt(script.array_path, arrayFile, simulFile), position - 1)
        simul_dict == FileAt(script.simul_path, arrayFile, simulFile)
    IN  JqAdd(simul_dict, array_dict)

------------------------------------------------------------------------------
(* metadata.json and the scheduler output *)

Str(chars) == [t |-> "str", s |-> chars]

TopKeys ==
    {"general_metadata", "job_information", "slurm_parameters",
     "simulation_parameters", "array_parameters"}

JobKeys == {"job_id", "state", "start_time", "end_time", "elapsed_time"}

\* the metadata dict built by generate_metadata_file; today and hexsha stand
\* for datetime.today() and the head commit of the enclosing repository
generate_metadata_file(slurm_params, simulation_params, array_params, other_params, today, hexsha) ==
    [k \in TopKeys |->
        CASE k = "general_metadata" ->
                 [author |-> "Julien Drapeau", creation_date |-> today,
                  description |-> other_params.description, github_version |-> hexsha]
          [] k = "job_information" -> [j \in JobKeys |-> JNull]
          [] k = "slurm_parameters" -> slurm_params
          [] k = "simulation_parameters" -> simulation_params
          [] k = "array_parameters" -> array_params]

\* faulty variant of update_metadata: the section is overwritten by the job details
update_metadata_overwrite(doc, job_details) ==
    [k \in (DOMAIN doc) \cup {"job_information"} |->
        IF k = "job_information" THEN job_details ELSE doc[k]]

\* update_metadata between json.load and json.dump: the section is created
\* when absent, then metadata["job_information"].update(job_details)
update_metadata(doc, job_details) ==
    LET md == IF "job_information" \in DOMAIN doc THEN doc
              ELSE [k \in (DOMAIN doc) \cup {"job_information"} |->
                       IF k = "job_information" THEN <<>> ELSE doc[k]]
    IN  [md EXCEPT !["job_information"] = DictUpdate(@, job_details)]

Whitespace == {" ", "\n", "\t"}

\* str.strip()
RECURSIVE LStrip(_)
LStrip(s) == IF Len(s) > 0 /\ s[1] \in Whitespace THEN LStrip(Tail(s)) ELSE s

RECURSIVE RStrip(_)
RStrip(s) ==
    IF Len(s) > 0 /\ s[Len(s)] \in Whitespace THEN RStrip(SubSeq(s, 1, Len(s) - 1)) ELSE s

Strip(s) == RStrip(LStrip(s))

\* str.split(): the maximal runs of non-whitespace characters, in order
RECURSIVE SplitFrom(_, _, _)
SplitFrom(s, cur, acc) ==
    IF Len(s) = 0 THEN (IF Len(cur) = 0 THEN acc ELSE Append(acc, cur))
    ELSE IF s[1] \in Whitespace
         THEN SplitFrom(Tail(s), <<>>, IF Len(cur) = 0 THEN acc ELSE Append(acc, cur))
         ELSE SplitFrom(Tail(s), Append(cur, s[1]), acc)

Split(s) == SplitFrom(s, <<>>, <<>>)

------------------------------------------------------------------------------
(* The states the output directory can be in before the tool runs *)

Run(suffix) == Prefix \o suffix

InitialDirCandidates ==
    { Run(<<"1">>), Run(<<"2">>), Run(<<"7", "a">>), Run(<<"0", "7">>),
      Run(Prefix \o <<"5">>), Run(<<"1", "_", "0">>), <<"d", "a", "t", "a">> }

InitialFileCandidates == { Run(<<"3">>), <<"n", "o", "t", "e", "s">> }

Procs == {1, 2}

------------------------------------------------------------------------------
(* Values of the variables a specification does not use *)

AllocIdle ==
    /\ parentExists = FALSE
    /\ fsDirs = {}
    /\ fsFiles = {}
    /\ pc = [p \in Procs |-> "idle"]
    /\ highest_num = [p \in Procs |-> 0]
    /\ seen = [p \in Procs |-> {}]
    /\ startedAt = [p \in Procs |-> 0]
    /\ calls = <<>>
    /\ now = 0

ExpandIdle ==
    /\ range_array_params = <<>>
    /\ expanded = [status |-> "idle", value |-> <<>>]

NoTask == [task |-> 0, dir |-> <<>>, arg |-> JNull]

FilesIdle ==
    /\ array_json = [exists |-> FALSE, list |-> <<>>]
    /\ simul_json = Obj(<<>>)
    /\ simul_out = "out"
    /\ scripts = <<>>
    /\ metas = <<>>
    /\ launched = NoTask

PrepIdle ==
    /\ prep_pc = "idle"
    /\ prep_result = "none"
    /\ mem_range = <<>>
    /\ mem_simul_out = "out"
    /\ sub_dir_path = <<>>
    /\ atStart = [parent |-> FALSE, dirs |-> {}, scripts |-> <<>>, metas |-> <<>>]
    /\ preps = 0
    /\ allOk = TRUE

NoFile == [kind |-> "missing", doc |-> <<>>]

NoProcess == [kind |-> "none", rc |-> 0, stdout |-> <<>>]

LaunchIdle ==
    /\ meta_file = NoFile
    /\ l_pc = "idle"
    /\ sbatch = NoProcess
    /\ job_id = <<>>
    /\ metadata = <<>>
    /\ fileAtStart = NoFile
    /\ prepared = NoFile
    /\ updateInvoked = FALSE
    /\ submits = 0

------------------------------------------------------------------------------
(* create_directory_structure, in its two filesystem steps *)

\* os.makedirs(dir, exist_ok=True); the os.listdir scan and the loop
ListDir(p) ==
    /\ pc[p] = "idle"
    /\ Len(calls) + Cardinality({q \in Procs : pc[q] = "listed"}) < MaxCalls
    /\ parentExists' = TRUE
    /\ seen' = [seen EXCEPT ![p] = fsDirs]
    /\ highest_num' = [highest_num EXCEPT ![p] = HighestNum(ExistingDirs(fsDirs))]
    /\ startedAt' = [startedAt EXCEPT ![p] = now + 1]
    /\ pc' = [pc EXCEPT ![p] = "listed"]
    /\ now' = now + 1
    /\ UNCHANGED <<fsDirs, fsFiles, calls>>
    /\ UNCHANGED <<expandVars, filesVars, prepVars, launchVars>>

\* os.makedirs(next_dir_path, exist_ok=True) and the three subdirectories;
\* FileExistsError when the name is taken by a regular file
MakeDirs(p) ==
    /\ pc[p] = "listed"
    /\ LET name == NextDirName(highest_num[p])
           ok == name \notin fsFiles
       IN  /\ fsDirs' = IF ok THEN fsDirs \cup {name} ELSE fsDirs
           /\ calls' = Append(calls,
                  [proc |-> p, before |-> seen[p], files |-> fsFiles,
                   num |-> highest_num[p] + 1,
                   path |-> name, ok |-> ok,
                   start |-> startedAt[p], end |-> now + 1])
    /\ pc' = [pc EXCEPT ![p] = "idle"]
    /\ now' = now + 1
    /\ UNCHANGED <<parentExists, fsFiles, highest_num, seen, startedAt>>
    /\ UNCHANGED <<expandVars, filesVars, prepVars, launchVars>>

AllocInit ==
    /\ parentExists \in BOOLEAN
    /\ fsDirs \in SUBSET InitialDirCandidates
    /\ fsFiles \in SUBSET InitialFileCandidates
    /\ (~parentExists => fsDirs = {} /\ fsFiles = {})
    /\ pc = [p \in Procs |-> "idle"]
    /\ highest_num = [p \in Procs |-> 0]
    /\ seen = [p \in Procs |-> {}]
    /\ startedAt = [p \in Procs |-> 0]
    /\ calls = <<>>
    /\ now = 0
    /\ ExpandIdle /\ FilesIdle /\ PrepIdle /\ LaunchIdle

AllocNext == \E p \in Procs : ListDir(p) \/ MakeDirs(p)

SpecAlloc == AllocInit /\ [][AllocNext]_vars

------------------------------------------------------------------------------
(* Vocabulary of the allocator claims, in terms of the name itself *)

\* the text after the prefix
Suffix(d) == SubSeq(d, Len(Prefix) + 1, Len(d))

HasNumericSuffix(d) == StartsWith(d) /\ IntParses(Suffix(d))

\* M: the largest numeric suffix among the prefixed directories, 0 if none
MaxSuffix(dirs) ==
    LET nums == {IntValue(Suffix(d)) : d \in {x \in dirs : HasNumericSuffix(x)}}
    IN  IF nums = {} THEN 0 ELSE CHOOSE m \in nums : \A k \in nums : k <= m

\* call i ran alone: every other finished call ended before it started or
\* started after it ended
Serial(i) ==
    \A j \in DOMAIN calls :
        j # i => (calls[j].end < calls[i].start \/ calls[i].end < calls[j].start)

\* C1: a call executed one at a time is allocated a number strictly greater
\* than the numeric suffix of every prefixed sibling directory existing at the
\* call, and two such calls are never allocated the same number.
C1_MonotonicNeverReused ==
    \A i \in DOMAIN calls :
        (Serial(i) /\ calls[i].ok) =>
            /\ \A d \in calls[i].before :
                   HasNumericSuffix(d) => calls[i].num > IntValue(Suffix(d))
            /\ \A j \in DOMAIN calls :
                   (j # i /\ Serial(j) /\ calls[j].ok) => calls[j].num # calls[i].num

C1_Witness ==
    /\ Len(calls) >= 2
    /\ \A i \in DOMAIN calls : Serial(i) /\ calls[i].ok
    /\ \E d \in calls[1].before : HasNumericSuffix(d)

\* C2: for every set of existing children, the call allocates prefix + (M+1)
\* where M is the maximum numeric suffix among the prefixed child directories
\* (0 when there is none); non-numeric suffixes are skipped without error.
C2_AllocatesMaxSuffixPlusOne ==
    \A i \in DOMAIN calls :
        (Serial(i) /\ calls[i].ok) =>
            calls[i].path = Prefix \o FormatInt(MaxSuffix(calls[i].before) + 1)

\* C9: of two invocations where one completes before the other starts, the
\* returned run directories are distinct (the interleaved collision is the
\* witness).
C9_SequentialDistinct ==
    \A i, j \in DOMAIN calls :
        (calls[j].end < calls[i].start /\ calls[i].ok /\ calls[j].ok)
            => calls[i].path # calls[j].path

\* two interleaved invocations that both listed before either created its
\* directory and were allocated the same number
C9_Witness ==
    \E i, j \in DOMAIN calls :
        /\ i # j
        /\ calls[i].ok /\ calls[j].ok
        /\ calls[i].start < calls[j].end /\ calls[j].start < calls[i].end
        /\ calls[i].num = calls[j].num
        /\ calls[i].path = calls[j].path

------------------------------------------------------------------------------
(* The expander on its own *)

\* one call of add_array_parameters on the loaded specification
Expand ==
    /\ expanded.status = "pending"
    /\ expanded' =
           IF ExpandError(range_array_params) # "none"
           THEN [status |-> ExpandError(range_array_params), value |-> <<>>]
           ELSE [status |-> "ok", value |-> add_array_parameters(range_array_params)]
    /\ UNCHANGED range_array_params
    /\ UNCHANGED <<allocVars, filesVars, prepVars, launchVars>>

ExpandInit ==
    /\ range_array_params \in RangeSpecs
    /\ expanded = [status |-> "pending", value |-> <<>>]
    /\ AllocIdle /\ FilesIdle /\ PrepIdle /\ LaunchIdle

ExpandNext == Expand

SpecExpand == ExpandInit /\ [][ExpandNext]_vars

------------------------------------------------------------------------------
(* Vocabulary of the expander claims *)

OnlyLists(spec) == \A i \in 1..Len(spec) : spec[i].kind = "list"

\* product of the list lengths of parameters j..Len(spec)
RECURSIVE ProdLen(_, _)
ProdLen(spec, j) ==
    IF j > Len(spec) THEN 1 ELSE Len(spec[j].vals) * ProdLen(spec, j + 1)

\* 0-based index into list j of the combination at 1-based position k, in
\* lexicographic order with the last parameter varying fastest
IndexAt(spec, k, j) == ((k - 1) \div ProdLen(spec, j + 1)) % Len(spec[j].vals)

ValuesOf(list) == {list[i] : i \in 1..Len(list)}

\* every mapping that gives each parameter one value of its list
CrossProduct(spec) ==
    {f \in [ParamNames(spec) -> UNION {ValuesOf(spec[i].vals) : i \in 1..Len(spec)}] :
        \A i \in 1..Len(spec) : f[spec[i].name] \in ValuesOf(spec[i].vals)}

IsProductOfLists(spec, res) ==
    /\ Len(res) = ProdLen(spec, 1)
    /\ \A k \in 1..Len(res) : res[k] \in CrossProduct(spec)
    /\ \A f \in CrossProduct(spec) : \E k \in 1..Len(res) : res[k] = f
    /\ \A k \in 1..Len(res) : \A j \in 1..Len(spec) :
           res[k][spec[j].name] = spec[j].vals[IndexAt(spec, k, j) + 1]

NoRepeatedCombination(res) ==
    \A k1, k2 \in 1..Len(res) : k1 # k2 => res[k1] # res[k2]

NoRepeatedValue(spec) ==
    \A i \in 1..Len(spec) : \A x, y \in 1..Len(spec[i].vals) :
        x # y => spec[i].vals[x] # spec[i].vals[y]

\* C3 as stated: for a specification of explicit lists only, the result is
\* exactly the cross product in lexicographic order, its length the product
\* of the list lengths, and no combination appears twice.
C3_ExactCrossProductNoDuplicates ==
    (expanded.status = "ok" /\ OnlyLists(range_array_params)) =>
        /\ IsProductOfLists(range_array_params, expanded.value)
        /\ NoRepeatedCombination(expanded.value)

\* C3 amended: as above, but no combination appears twice only when no list
\* repeats a value.
C3_CrossProductInOrder ==
    (expanded.status = "ok" /\ OnlyLists(range_array_params)) =>
        /\ IsProductOfLists(range_array_params, expanded.value)
        /\ (NoRepeatedValue(range_array_params)
                => NoRepeatedCombination(expanded.value))

C3_Witness ==
    /\ expanded.status = "ok"
    /\ OnlyLists(range_array_params)
    /\ Len(range_array_params) = 2
    /\ NoRepeatedValue(range_array_params)
    /\ Len(expanded.value) = 4

------------------------------------------------------------------------------
(* job_prepper.py __main__: one preparation invocation at a time *)

\* slurm_params["output_directory"]
SlurmOut == "out"

OutDirChoices == {"out", "elsewhere"}

\* contents the user gives range_array_params.json between invocations
PrepRangeChoices ==
    { <<ListEntry("a", <<Num(1), Num(2)>>)>>,
      <<ListEntry("a", <<Num(3)>>), RangeEntry("b", 0, 2, 1)>>,
      <<ListEntry("a", <<Num(1)>>), OtherEntry("b")>>,
      <<PartialDictEntry("a")>>,
      <<OtherEntry("a")>> }

PrepSimul == Obj([m |-> Num(0)])

\* the comparison of the two output_directory entries
OutputDirsDiffer(slurm_out, sim_out) == slurm_out # sim_out

\* d with key k set to v
Store(d, k, v) == [x \in (DOMAIN d) \cup {k} |-> IF x = k THEN v ELSE d[x]]

\* the user edits range_array_params.json
EditRange ==
    /\ \E r \in PrepRangeChoices : r # range_array_params /\ range_array_params' = r
    /\ UNCHANGED <<expanded, filesVars, allocVars, prepVars, launchVars>>

\* the user edits output_directory in simul_params.json
EditOutDir ==
    /\ \E o \in OutDirChoices : o # simul_out /\ simul_out' = o
    /\ UNCHANGED <<array_json, simul_json, scripts, metas, launched>>
    /\ UNCHANGED <<allocVars, expandVars, prepVars, launchVars>>

\* the four load_json calls
PrepLoad ==
    /\ prep_pc = "idle"
    /\ preps < MaxPreps
    /\ preps' = preps + 1
    /\ mem_range' = range_array_params
    /\ mem_simul_out' = simul_out
    /\ atStart' = [parent |-> parentExists, dirs |-> fsDirs,
                   scripts |-> scripts, metas |-> metas]
    /\ prep_result' = "running"
    /\ prep_pc' = "loaded"
    /\ UNCHANGED <<sub_dir_path, allOk>>
    /\ UNCHANGED <<allocVars, expandVars, filesVars, launchVars>>

\* if slurm_params["output_directory"] != simul_params["output_directory"]:
\* raise ValueError
PrepCheckDirs ==
    /\ prep_pc = "loaded"
    /\ IF OutputDirsDiffer(SlurmOut, mem_simul_out)
       THEN prep_pc' = "idle" /\ prep_result' = "ValueError" /\ allOk' = FALSE
       ELSE prep_pc' = "checked" /\ UNCHANGED <<prep_result, allOk>>
    /\ UNCHANGED <<mem_range, mem_simul_out, sub_dir_path, atStart, preps>>
    /\ UNCHANGED <<allocVars, expandVars, filesVars, launchVars>>

\* dump_json(add_array_parameters(range_array_params), array_path): the
\* argument is evaluated, and may raise, before the file is opened
PrepExpand ==
    /\ prep_pc = "checked"
    /\ IF ExpandError(mem_range) # "none"
       THEN /\ prep_pc' = "idle" /\ prep_result' = ExpandError(mem_range) /\ allOk' = FALSE
            /\ UNCHANGED array_json
       ELSE /\ prep_pc' = "expanded" /\ UNCHANGED <<prep_result, allOk>>
            /\ array_json' = [exists |-> TRUE,
                              list |-> DumpCombinations(add_array_parameters(mem_range))]
    /\ UNCHANGED <<mem_range, mem_simul_out, sub_dir_path, atStart, preps>>
    /\ UNCHANGED <<simul_json, simul_out, scripts, metas, launched>>
    /\ UNCHANGED <<allocVars, expandVars, launchVars>>

\* sub_dir_path = create_directory_structure(slurm_params["output_directory"])
PrepAllocate ==
    /\ prep_pc = "expanded"
    /\ LET name == NextDirName(HighestNum(ExistingDirs(fsDirs)))
       IN  IF name \in fsFiles
           THEN /\ prep_pc' = "idle" /\ prep_result' = "FileExistsError" /\ allOk' = FALSE
                /\ UNCHANGED <<fsDirs, sub_dir_path>>
           ELSE /\ prep_pc' = "allocated" /\ UNCHANGED <<prep_result, allOk>>
                /\ fsDirs' = fsDirs \cup {name}
                /\ sub_dir_path' = name
    /\ parentExists' = TRUE
    /\ UNCHANGED <<fsFiles, pc, highest_num, seen, startedAt, calls, now>>
    /\ UNCHANGED <<mem_range, mem_simul_out, atStart, preps>>
    /\ UNCHANGED <<expandVars, filesVars, launchVars>>

\* generate_slurm_script(sub_dir_path, python_script_path, slurm_params,
\* simul_path, array_path)
PrepScript ==
    /\ prep_pc = "allocated"
    /\ scripts' = Store(scripts, sub_dir_path,
                        generate_slurm_script(sub_dir_path, ProgramPath, "1-4",
                                              SimulPath, ArrayPath))
    /\ prep_pc' = "scripted"
    /\ UNCHANGED <<array_json, simul_json, simul_out, metas, launched>>
    /\ UNCHANGED <<prep_result, mem_range, mem_simul_out, sub_dir_path, atStart, preps, allOk>>
    /\ UNCHANGED <<allocVars, expandVars, launchVars>>

\* os.chmod(secondary_job_path, 0o700)
PrepChmod ==
    /\ prep_pc = "scripted"
    /\ scripts' = Store(scripts, sub_dir_path, Chmod700(scripts[sub_dir_path]))
    /\ prep_pc' = "chmodded"
    /\ UNCHANGED <<array_json, simul_json, simul_out, metas, launched>>
    /\ UNCHANGED <<prep_result, mem_range, mem_simul_out, sub_dir_path, atStart, preps, allOk>>
    /\ UNCHANGED <<allocVars, expandVars, launchVars>>

\* generate_metadata_file(metadata_path, slurm_params, simul_params,
\* range_array_params, other_params); git.Repo raises outside a repository
PrepMetadata ==
    /\ prep_pc = "chmodded"
    /\ \E inRepository \in BOOLEAN :
          IF inRepository
          THEN /\ metas' = Store(metas, sub_dir_path,
                       generate_metadata_file(
                           [partition |-> "main", array |-> "1-4", output_directory |-> SlurmOut],
                           [params |-> simul_json, output_directory |-> mem_simul_out],
                           mem_range, [description |-> "sweep"], "06/11/2026", "hexsha"))
               /\ prep_result' = "ok" /\ UNCHANGED allOk
          ELSE /\ prep_result' = "InvalidGitRepositoryError" /\ allOk' = FALSE
               /\ UNCHANGED metas
    /\ prep_pc' = "idle"
    /\ UNCHANGED <<array_json, simul_json, simul_out, scripts, launched>>
    /\ UNCHANGED <<mem_range, mem_simul_out, sub_dir_path, atStart, preps>>
    /\ UNCHANGED <<allocVars, expandVars, launchVars>>

PrepInit ==
    /\ parentExists \in BOOLEAN
    /\ fsDirs \in SUBSET {Run(<<"1">>), Run(<<"7", "a">>)}
    /\ fsFiles \in SUBSET {Run(<<"2">>)}
    /\ (~parentExists => fsDirs = {} /\ fsFiles = {})
    /\ pc = [p \in Procs |-> "idle"]
    /\ highest_num = [p \in Procs |-> 0]
    /\ seen = [p \in Procs |-> {}]
    /\ startedAt = [p \in Procs |-> 0]
    /\ calls = <<>>
    /\ now = 0
    /\ range_array_params \in PrepRangeChoices
    /\ expanded = [status |-> "idle", value |-> <<>>]
    /\ array_json = [exists |-> FALSE, list |-> <<>>]
    /\ simul_json = PrepSimul
    /\ simul_out \in OutDirChoices
    /\ scripts = <<>>
    /\ metas = <<>>
    /\ launched = NoTask
    /\ PrepIdle /\ LaunchIdle

PrepNext ==
    \/ EditRange
    \/ EditOutDir
    \/ PrepLoad
    \/ PrepCheckDirs
    \/ PrepExpand
    \/ PrepAllocate
    \/ PrepScript
    \/ PrepChmod
    \/ PrepMetadata

SpecPrep == PrepInit /\ [][PrepNext]_vars

------------------------------------------------------------------------------
(* Vocabulary of the preparation claims *)

\* the loaded parameters carry an input validation error
MismatchedOutputDirectory == mem_simul_out # SlurmOut

HasInvalidShape ==
    \E i \in 1..Len(mem_range) : mem_range[i].kind \in {"other", "partial_dict"}

\* C4: an invocation whose input has a validation error (an entry that is
\* neither a list nor a {start, end, step} object, or mismatched output
\* directories) ends with an error and has created no directory, no
\* job_script.sh and no metadata.json.
C4_ValidationErrorCreatesNothing ==
    (prep_result # "none" /\ (MismatchedOutputDirectory \/ HasInvalidShape)) =>
        /\ parentExists = atStart.parent
        /\ fsDirs = atStart.dirs
        /\ scripts = atStart.scripts
        /\ metas = atStart.metas
        /\ (prep_pc = "idle" => prep_result \in {"ValueError", "KeyError"})

\* a second invocation failed on an invalid shape after a first one succeeded
C4_Witness ==
    /\ prep_pc = "idle"
    /\ prep_result = "ValueError"
    /\ HasInvalidShape
    /\ ~MismatchedOutputDirectory
    /\ preps = 2
    /\ DOMAIN metas # {}

\* C10: after successful preparations, the combination list each run's
\* job_script.sh reads is the expansion of the array_parameters recorded in
\* that run's metadata.json.
C10_ScriptReadsRecordedExpansion ==
    (prep_pc = "idle" /\ allOk) =>
        \A d \in (DOMAIN scripts) \cap (DOMAIN metas) :
            FileAt(scripts[d].array_path, array_json, simul_json)
                = DumpCombinations(add_array_parameters(metas[d]["array_parameters"]))

------------------------------------------------------------------------------
(* One array task of a generated script *)

RunOne == Run(<<"1">>)

ScriptValues == {Num(1), Obj([x |-> Num(1)])}

ScriptListChoices == UNION {[1..n -> ScriptValues] : n \in 1..MaxListLen}

ScriptRangeSpecs ==
    UNION {{spec \in [1..n -> {ListEntry(nm, v) : nm \in {"a", "b"}, v \in ScriptListChoices}] :
               DistinctNames(spec)} : n \in 0..MaxParams}

SimulValueChoices == {Num(0), Obj([x |-> Num(0)]), Obj([x |-> Num(0), y |-> Num(0)])}

SimulChoices ==
    {Obj(f) : f \in UNION {[K -> SimulValueChoices] : K \in SUBSET {"a", "m"}}}

\* the scheduler starts the task with SLURM_ARRAY_TASK_ID = i: the script
\* runs to the python call
RunTask(dir, i) ==
    /\ dir \in DOMAIN scripts
    /\ launched' = [task |-> i, dir |-> dir,
                    arg |-> ScriptArgument(scripts[dir], i, array_json, simul_json)]
    /\ UNCHANGED <<array_json, simul_json, simul_out, scripts, metas>>
    /\ UNCHANGED <<allocVars, expandVars, prepVars, launchVars>>

ScriptInit ==
    /\ range_array_params \in ScriptRangeSpecs
    /\ expanded = [status |-> "idle", value |-> <<>>]
    /\ array_json = [exists |-> TRUE,
                     list |-> DumpCombinations(add_array_parameters(range_array_params))]
    /\ simul_json \in SimulChoices
    /\ simul_out = "out"
    /\ scripts = [d \in {RunOne} |->
                     Chmod700(generate_slurm_script(RunOne, ProgramPath, "1-4", SimulPath, ArrayPath))]
    /\ metas = <<>>
    /\ launched = NoTask
    /\ AllocIdle /\ PrepIdle /\ LaunchIdle

ScriptNext == \E dir \in DOMAIN scripts : \E i \in 0..MaxTaskId : RunTask(dir, i)

SpecScript == ScriptInit /\ [][ScriptNext]_vars

------------------------------------------------------------------------------
(* Vocabulary of the script claim *)

\* the deep merge of y over x: objects are merged recursively, anything else
\* is replaced by y
RECURSIVE DeepMerge(_, _)
DeepMerge(x, y) ==
    IF x.t = "obj" /\ y.t = "obj"
    THEN Obj([k \in (DOMAIN x.o) \cup (DOMAIN y.o) |->
                 IF k \in DOMAIN x.o /\ k \in DOMAIN y.o THEN DeepMerge(x.o[k], y.o[k])
                 ELSE IF k \in DOMAIN y.o THEN y.o[k]
                 ELSE x.o[k]])
    ELSE y

\* C8: array task i (1-indexed) passes to the target program the deep merge
\* of the combination at 0-indexed position i-1 of the serialized list over
\* the shared parameters.
C8_DeepMergeOfSelected ==
    (launched.task >= 1 /\ launched.task <= Len(array_json.list)) =>
        launched.arg = DeepMerge(simul_json, array_json.list[launched.task])

\* the part of C8 the script does satisfy: the selected combination merged
\* over the shared parameters key by key at the top level
C8_TopLevelMergeOfSelected ==
    (launched.task >= 1 /\ launched.task <= Len(array_json.list)) =>
        LET c == array_json.list[launched.task].o
            m == launched.arg.o
        IN  /\ DOMAIN m = (DOMAIN c) \cup (DOMAIN simul_json.o)
            /\ \A k \in DOMAIN c : m[k] = c[k]
            /\ \A k \in (DOMAIN simul_json.o) \ (DOMAIN c) : m[k] = simul_json.o[k]

------------------------------------------------------------------------------
(* job_launcher.py: submit_job and update_metadata on one run directory *)

Pending == Str(<<"P", "E", "N", "D", "I", "N", "G">>)

SampleSlurm == [partition |-> "main", array |-> "1-4", output_directory |-> "out"]

SampleSimul == [params |-> Obj([m |-> Num(0)]), output_directory |-> "out"]

SampleRange == <<ListEntry("a", <<Num(1), Num(2)>>)>>

SampleOther == [description |-> "sweep"]

\* the record a preparation writes
FreshRecord ==
    generate_metadata_file(SampleSlurm, SampleSimul, SampleRange, SampleOther,
                           "06/11/2026", "hexsha")

\* the same record after the state was filled in, and with the section removed
PendingRecord == [FreshRecord EXCEPT !["job_information"]["state"] = Pending]

NoSectionRecord == [k \in TopKeys \ {"job_information"} |-> FreshRecord[k]]

MetaFileChoices ==
    {[kind |-> "json", doc |-> d] : d \in {FreshRecord, PendingRecord, NoSectionRecord}}
    \cup {[kind |-> "missing", doc |-> <<>>], [kind |-> "malformed", doc |-> <<>>]}

\* what sbatch printed on its standard output
StdoutChoices ==
    { <<"j", "o", "b", " ", "7", "\n">>, <<"j", "o", "b", " ", "8", "\n">>,
      <<"e", "r", "r">>, <<"\n">>, <<>> }

\* the completed process of subprocess.run, or the OSError when sbatch cannot
\* be started
SbatchOutcomes ==
    {[kind |-> "exited", rc |-> r, stdout |-> o] : r \in {0, 1}, o \in StdoutChoices}
    \cup {[kind |-> "oserror", rc |-> 0, stdout |-> <<>>]}

Terminated == {"idle", "done", "failed", "interrupted"}

\* python tools/job_launcher.py <run directory>
StartSubmit ==
    /\ l_pc \in Terminated
    /\ submits < MaxSubmits
    /\ l_pc' = "start"
    /\ submits' = submits + 1
    /\ fileAtStart' = meta_file
    /\ updateInvoked' = FALSE
    /\ sbatch' = NoProcess
    /\ job_id' = <<>>
    /\ metadata' = <<>>
    /\ UNCHANGED <<meta_file, prepared>>
    /\ UNCHANGED <<allocVars, expandVars, filesVars, prepVars>>

\* subprocess.run(["sbatch", slurm_script_path], stdout=PIPE, text=True): the
\* return code is not looked at
RunSbatch ==
    /\ l_pc = "start"
    /\ \E o \in SbatchOutcomes :
          /\ sbatch' = o
          /\ l_pc' = IF o.kind = "oserror" THEN "failed" ELSE "ran"
    /\ UNCHANGED <<meta_file, job_id, metadata, fileAtStart, prepared, updateInvoked, submits>>
    /\ UNCHANGED <<allocVars, expandVars, filesVars, prepVars>>

\* job_id = result.stdout.strip().split()[-1]; IndexError on no token
ParseJobId ==
    /\ l_pc = "ran"
    /\ LET tokens == Split(Strip(sbatch.stdout))
       IN  IF Len(tokens) = 0
           THEN l_pc' = "failed" /\ UNCHANGED job_id
           ELSE l_pc' = "parsed" /\ job_id' = tokens[Len(tokens)]
    /\ UNCHANGED <<meta_file, sbatch, metadata, fileAtStart, prepared, updateInvoked, submits>>
    /\ UNCHANGED <<allocVars, expandVars, filesVars, prepVars>>

\* update_metadata(metadata_file_path, {"job_id": job_id}): open for reading,
\* json.load, and the update of the loaded dict
UpdateRead ==
    /\ l_pc = "parsed"
    /\ updateInvoked' = TRUE
    /\ IF meta_file.kind = "json"
       THEN /\ metadata' = update_metadata(meta_file.doc, [job_id |-> Str(job_id)])
            /\ l_pc' = "read"
       ELSE /\ l_pc' = "failed"
            /\ UNCHANGED metadata
    /\ UNCHANGED <<meta_file, sbatch, job_id, fileAtStart, prepared, submits>>
    /\ UNCHANGED <<allocVars, expandVars, filesVars, prepVars>>

\* open(metadata_file_path, "w"): the file is truncated
UpdateOpenForWrite ==
    /\ l_pc = "read"
    /\ meta_file' = [kind |-> "empty", doc |-> <<>>]
    /\ l_pc' = "opened"
    /\ UNCHANGED <<sbatch, job_id, metadata, fileAtStart, prepared, updateInvoked, submits>>
    /\ UNCHANGED <<allocVars, expandVars, filesVars, prepVars>>

\* json.dump(metadata, file, indent=4) and the close of the file
UpdateDump ==
    /\ l_pc = "opened"
    /\ meta_file' = [kind |-> "json", doc |-> metadata]
    /\ l_pc' = "written"
    /\ UNCHANGED <<sbatch, job_id, metadata, fileAtStart, prepared, updateInvoked, submits>>
    /\ UNCHANGED <<allocVars, expandVars, filesVars, prepVars>>

\* print("Job submitted successfully.")
PrintSubmitted ==
    /\ l_pc = "written"
    /\ l_pc' = "done"
    /\ UNCHANGED <<meta_file, sbatch, job_id, metadata, fileAtStart, prepared, updateInvoked, submits>>
    /\ UNCHANGED <<allocVars, expandVars, filesVars, prepVars>>

\* the process is killed, or a write fails, between two steps
Interrupt ==
    /\ l_pc \in {"start", "ran", "parsed", "read", "opened", "written"}
    /\ l_pc' = "interrupted"
    /\ UNCHANGED <<meta_file, sbatch, job_id, metadata, fileAtStart, prepared, updateInvoked, submits>>
    /\ UNCHANGED <<allocVars, expandVars, filesVars, prepVars>>

LaunchInit ==
    /\ meta_file \in MetaFileChoices
    /\ prepared = meta_file
    /\ fileAtStart = meta_file
    /\ l_pc = "idle"
    /\ sbatch = NoProcess
    /\ job_id = <<>>
    /\ metadata = <<>>
    /\ updateInvoked = FALSE
    /\ submits = 0
    /\ AllocIdle /\ ExpandIdle /\ FilesIdle /\ PrepIdle

LaunchNext ==
    \/ StartSubmit
    \/ RunSbatch
    \/ ParseJobId
    \/ UpdateRead
    \/ UpdateOpenForWrite
    \/ UpdateDump
    \/ PrintSubmitted
    \/ Interrupt

SpecLaunch == LaunchInit /\ [][LaunchNext]_vars

------------------------------------------------------------------------------
(* Vocabulary of the metadata claims *)

JobInfo(doc) == IF "job_information" \in DOMAIN doc THEN doc["job_information"] ELSE <<>>

\* new is old with only the given keys of job_information set
OnlyJobKeysChanged(old, new, keys) ==
    /\ DOMAIN new = (DOMAIN old) \cup {"job_information"}
    /\ \A s \in (DOMAIN old) \ {"job_information"} : new[s] = old[s]
    /\ DOMAIN JobInfo(new) = (DOMAIN JobInfo(old)) \cup keys
    /\ \A k \in (DOMAIN JobInfo(old)) \ keys : JobInfo(new)[k] = JobInfo(old)[k]

JobDetailsChoices ==
    { <<>>, [job_id |-> Str(<<"7">>)], [state |-> Str(<<"R">>)],
      [job_id |-> Str(<<"7">>), state |-> Str(<<"R">>)] }

\* C5: an update changes only the keys of the job details inside
\* job_information, every other key and section keeps its value; after any
\* sequence of submissions job_information.job_id is the only field that
\* differs from the record written at preparation time.
C5_UpdateChangesOnlyJobDetails ==
    /\ (l_pc \in {"written", "done"}) =>
           /\ meta_file.kind = "json"
           /\ OnlyJobKeysChanged(fileAtStart.doc, meta_file.doc, {"job_id"})
           /\ JobInfo(meta_file.doc)["job_id"] = Str(job_id)
    /\ (meta_file.kind = "json" /\ prepared.kind = "json") =>
           \/ meta_file.doc = prepared.doc
           \/ OnlyJobKeysChanged(prepared.doc, meta_file.doc, {"job_id"})
    /\ (meta_file.kind = "json") =>
           \A d \in JobDetailsChoices :
               /\ OnlyJobKeysChanged(meta_file.doc, update_metadata(meta_file.doc, d), DOMAIN d)
               /\ \A k \in DOMAIN d : JobInfo(update_metadata(meta_file.doc, d))[k] = d[k]

\* a second submission of a record whose state is PENDING has completed
C5_Witness ==
    /\ l_pc = "done"
    /\ submits = 2
    /\ prepared.kind = "json"
    /\ JobInfo(prepared.doc) # <<>>
    /\ JobInfo(prepared.doc)["state"] = Pending
    /\ JobInfo(meta_file.doc)["state"] = Pending
    /\ JobInfo(meta_file.doc)["job_id"] = Str(<<"8">>)
    /\ JobInfo(fileAtStart.doc)["job_id"] = Str(<<"7">>)

\* C6: whenever a submission has ended, also by a failure or an
\* interruption, metadata.json holds the complete previous record or the
\* complete updated record; a missing or malformed file is left untouched and
\* the update fails.
C6_UpdateIsAllOrNothing ==
    (l_pc \in {"done", "failed", "interrupted"}) =>
        /\ \/ meta_file = fileAtStart
           \/ /\ fileAtStart.kind = "json"
              /\ meta_file = [kind |-> "json",
                              doc |-> update_metadata(fileAtStart.doc, [job_id |-> Str(job_id)])]
        /\ (updateInvoked /\ fileAtStart.kind # "json" /\ l_pc # "interrupted") =>
               (l_pc = "failed" /\ meta_file = fileAtStart)

\* C7: when sbatch exits abnormally or prints no token, the submission
\* fails, update_metadata is not invoked and the record is left as it was;
\* when it succeeds the recorded job_id is the last token of the output.
C7_FailedSubmissionLeavesRecord ==
    /\ (sbatch.kind = "exited" /\ (sbatch.rc # 0 \/ Len(Split(sbatch.stdout)) = 0)) =>
           /\ ~updateInvoked
           /\ meta_file = fileAtStart
           /\ l_pc # "done"
    /\ (l_pc = "done") =>
           JobInfo(meta_file.doc)["job_id"] = Str(Split(sbatch.stdout)[Len(Split(sbatch.stdout))])

====
